---------------------------- MODULE Spec2Model ----------------------------
(***************************************************************************)
(* A model of src/src/main.rs: the line-oriented configuration parser, the *)
(* nested-key tree builder, the schema loader, the validator, the JSON     *)
(* serializer and the per-file driver loop of main.                        *)
(*                                                                         *)
(* Text is modelled character by character: a string is a sequence of      *)
(* one-character strings, so trimming, the two regular expressions, the    *)
(* split on '.' and the ASCII case-insensitive comparison are computed as  *)
(* the code computes them.                                                 *)
(***************************************************************************)
EXTENDS Naturals, Sequences, FiniteSets

(***************************************************************************)
(* Bounds of the model.                                                    *)
(***************************************************************************)
MaxLines == 2
MaxSchemaLines == 2
MaxFiles == 2

(***************************************************************************)
(* Characters.                                                             *)
(***************************************************************************)
LowerSeq == <<"a","b","c","d","e","f","g","h","i","j","k","l","m",
              "n","o","p","q","r","s","t","u","v","w","x","y","z">>
UpperSeq == <<"A","B","C","D","E","F","G","H","I","J","K","L","M",
              "N","O","P","Q","R","S","T","U","V","W","X","Y","Z">>
Digits == {"0","1","2","3","4","5","6","7","8","9"}
Range(s) == {s[i] : i \in 1..Len(s)}

\* \s of the regular expressions and the white space str::trim removes
IsSpace(c) == c \in {" ", "\t"}

UpperSet == Range(UpperSeq)
KeyCharSet == Range(LowerSeq) \cup UpperSet \cup Digits \cup {".", "_", "-"}

\* the character class [a-zA-Z0-9._-] of CONFIG_REGEX
IsKeyChar(c) == c \in KeyCharSet

\* u8::to_ascii_lowercase, as eq_ignore_ascii_case applies it
to_ascii_lowercase(c) ==
    IF c \in UpperSet
    THEN LowerSeq[CHOOSE i \in 1..Len(UpperSeq) : UpperSeq[i] = c]
    ELSE c

\* str::eq_ignore_ascii_case
eq_ignore_ascii_case(a, b) ==
    /\ Len(a) = Len(b)
    /\ \A i \in 1..Len(a) : to_ascii_lowercase(a[i]) = to_ascii_lowercase(b[i])

Drop(s, n) == SubSeq(s, n + 1, Len(s))

\* number of leading characters of s that satisfy \s
RECURSIVE LeadingSpaces(_)
LeadingSpaces(s) ==
    IF s # <<>> /\ IsSpace(Head(s)) THEN 1 + LeadingSpaces(Tail(s)) ELSE 0

RECURSIVE TrailingSpaces(_)
TrailingSpaces(s) ==
    IF s # <<>> /\ IsSpace(s[Len(s)])
    THEN 1 + TrailingSpaces(SubSeq(s, 1, Len(s) - 1))
    ELSE 0

\* str::trim
trim(s) ==
    LET a == LeadingSpaces(s)
    IN  IF a = Len(s) THEN <<>> ELSE SubSeq(s, a + 1, Len(s) - TrailingSpaces(s))

\* number of leading characters of s in the key character class
RECURSIVE LeadingKeyChars(_)
LeadingKeyChars(s) ==
    IF s # <<>> /\ IsKeyChar(Head(s)) THEN 1 + LeadingKeyChars(Tail(s)) ELSE 0

\* COMMENT_REGEX.is_match: ^\s*#
COMMENT_REGEX(s) ==
    LET r == Drop(s, LeadingSpaces(s)) IN r # <<>> /\ Head(r) = "#"

NoCapture == [matched |-> FALSE, key |-> <<>>, value |-> <<>>]

\* CONFIG_REGEX.captures: ^\s*([a-zA-Z0-9._-]+)\s*=\s*(.+?)\s*$
\* The key class shares no character with \s and '=', so group 1 is the
\* longest run of key characters; group 2 is the rest of the line after
\* '=' and white space, less the trailing white space, and is not empty.
CONFIG_REGEX(s) ==
    LET s1 == Drop(s, LeadingSpaces(s))
        n  == LeadingKeyChars(s1)
        s2 == Drop(s1, n)
        s3 == Drop(s2, LeadingSpaces(s2))
        s4 == IF s3 = <<>> THEN <<>> ELSE Tail(s3)
        v  == trim(s4)
    IN  IF n = 0 \/ s3 = <<>> \/ Head(s3) # "=" \/ v = <<>>
        THEN NoCapture
        ELSE [matched |-> TRUE, key |-> SubSeq(s1, 1, n), value |-> v]

\* key.split('.'): the segments between the dots, empty ones included
RECURSIVE split(_)
split(key) ==
    IF \A i \in 1..Len(key) : key[i] # "."
    THEN <<key>>
    ELSE LET d == CHOOSE i \in 1..Len(key) :
                      key[i] = "." /\ \A j \in 1..(i - 1) : key[j] # "."
         IN  <<SubSeq(key, 1, d - 1)>> \o split(Drop(key, d))

(***************************************************************************)
(* enum ConfigValue.  One record shape for the three variants; the field   *)
(* of the variant carries the payload.                                     *)
(***************************************************************************)
EmptyMap == <<>>
StringV(t) == [tag |-> "String", s |-> t, b |-> FALSE, m |-> EmptyMap]
BoolV(f) == [tag |-> "Bool", s |-> <<>>, b |-> f, m |-> EmptyMap]
MapV(h) == [tag |-> "Map", s |-> <<>>, b |-> FALSE, m |-> h]

TRUE_LIT == <<"t","r","u","e">>
FALSE_LIT == <<"f","a","l","s","e">>

\* the coercion with == in place of eq_ignore_ascii_case
coerce_case_sensitive(raw_value) ==
    IF raw_value = TRUE_LIT \/ raw_value = FALSE_LIT
    THEN BoolV(raw_value = TRUE_LIT)
    ELSE StringV(raw_value)

\* parse_config_file, the `let value = if ... else ...` of a matching line
coerce(raw_value) ==
    IF eq_ignore_ascii_case(raw_value, TRUE_LIT) \/ eq_ignore_ascii_case(raw_value, FALSE_LIT)
    THEN BoolV(eq_ignore_ascii_case(raw_value, TRUE_LIT))
    ELSE StringV(raw_value)

\* HashMap::insert: the entry is set, an earlier value under the key is lost
hash_insert(map, k, v) ==
    [x \in DOMAIN map \cup {k} |-> IF x = k THEN v ELSE map[x]]

\* as_map_mut handing out a fresh map for a leaf instead of None
as_map_mut_replacing(v) ==
    [some |-> TRUE, m |-> IF v.tag = "Map" THEN v.m ELSE EmptyMap]

\* ConfigValue::as_map_mut
as_map_mut(v) ==
    IF v.tag = "Map" THEN [some |-> TRUE, m |-> v.m] ELSE [some |-> FALSE, m |-> EmptyMap]

\* entry().or_insert in place of insert: an existing value is kept
hash_insert_keep_first(map, k, v) ==
    [x \in DOMAIN map \cup {k} |-> IF x \in DOMAIN map THEN map[x] ELSE v]

\* the final map.insert of insert_config_value
insert_last(map, k, v) == hash_insert(map, k, v)

\* insert_config_value after the split: the walk over keys[..len-1] with
\* entry().or_insert_with(Map).as_map_mut().expect(..), then the insert of
\* the last segment.  ok = FALSE is the panic of expect.
RECURSIVE insert_segments(_, _, _)
insert_segments(map, keys, value) ==
    IF Len(keys) = 1
    THEN [ok |-> TRUE, map |-> insert_last(map, keys[1], value)]
    ELSE LET entry == IF keys[1] \in DOMAIN map THEN map[keys[1]] ELSE MapV(EmptyMap)
             opt   == as_map_mut(entry)
             r     == insert_segments(opt.m, Tail(keys), value)
         IN  IF ~opt.some THEN [ok |-> FALSE, map |-> map]
             ELSE IF ~r.ok THEN [ok |-> FALSE, map |-> map]
             ELSE [ok |-> TRUE, map |-> hash_insert(map, keys[1], MapV(r.map))]

insert_config_value(config, key, value) == insert_segments(config, split(key), value)


\* the head of parse_config_file's loop body: the trim, the skip of comment
\* and empty lines, CONFIG_REGEX.captures and the trim of group 2
classify(line) ==
    LET trimmed_line == trim(line)
        captures     == CONFIG_REGEX(trimmed_line)
    IN  IF COMMENT_REGEX(trimmed_line) \/ trimmed_line = <<>>
        THEN NoCapture
        ELSE [matched |-> captures.matched, key |-> captures.key,
              value |-> trim(captures.value)]

\* one line of parse_config_file's loop: skip, ignore, or coerce and insert
parse_line(config, line) ==
    LET c == classify(line)
    IN  IF c.matched
        THEN insert_config_value(config, c.key, coerce(c.value))
        ELSE [ok |-> TRUE, map |-> config]

(***************************************************************************)
(* Schema loader.                                                          *)
(***************************************************************************)
STRING_T == <<"s","t","r","i","n","g">>
BOOL_T == <<"b","o","o","l">>
MAP_T == <<"m","a","p">>

\* load_schema's loop: the same skip and pattern as parse_config_file; the
\* type token is stored as it stands
RECURSIVE load_schema_lines(_, _)
load_schema_lines(schema, lines) ==
    IF lines = <<>> THEN schema
    ELSE LET c    == classify(Head(lines))
             next == IF c.matched THEN hash_insert(schema, c.key, c.value) ELSE schema
         IN  load_schema_lines(next, Tail(lines))

\* the loader keeping only the lines whose token is string or bool
RECURSIVE load_schema_strict_lines(_, _)
load_schema_strict_lines(schema, lines) ==
    IF lines = <<>> THEN schema
    ELSE LET c    == classify(Head(lines))
             next == IF c.matched /\ c.value \in {STRING_T, BOOL_T}
                     THEN hash_insert(schema, c.key, c.value)
                     ELSE schema
         IN  load_schema_strict_lines(next, Tail(lines))

load_schema_strict(lines) == load_schema_strict_lines(EmptyMap, lines)

\* load_schema over the lines of an opened schema file
load_schema(lines) == load_schema_lines(EmptyMap, lines)

(***************************************************************************)
(* Validator.                                                              *)
(***************************************************************************)
\* the match of validate_config: the three accepting arms
type_matches(expected_type, value) ==
    \/ expected_type = STRING_T /\ value.tag = "String"
    \/ expected_type = BOOL_T /\ value.tag = "Bool"
    \/ expected_type = MAP_T /\ value.tag = "Map"

\* validate_config: config.get(key) looks the whole schema key up in the
\* root map.  warned: the keys of the "missing key" lines on standard
\* output; mismatched: the keys of the error lines on standard error.
validate_config(config, schema) ==
    LET mismatched == {key \in DOMAIN schema :
                          key \in DOMAIN config /\ ~type_matches(schema[key], config[key])}
    IN  [valid |-> mismatched = {},
         warned |-> {key \in DOMAIN schema : key \notin DOMAIN config},
         mismatched |-> mismatched]

(***************************************************************************)
(* Serializer.                                                             *)
(***************************************************************************)
JString(t) == [jt |-> "string", s |-> t, b |-> FALSE, o |-> <<>>]
JBool(f) == [jt |-> "bool", s |-> <<>>, b |-> f, o |-> <<>>]
JObject(h) == [jt |-> "object", s |-> <<>>, b |-> FALSE, o |-> h]

RECURSIVE format_as_json(_)
format_as_json(config) ==
    JObject([key \in DOMAIN config |->
                CASE config[key].tag = "String" -> JString(config[key].s)
                  [] config[key].tag = "Map" -> format_as_json(config[key].m)
                  [] config[key].tag = "Bool" -> JBool(config[key].b)])

(***************************************************************************)
(* File collector.  kind is what the path is on disk; entries is the       *)
(* number of regular files read_dir yields for a directory.                *)
(***************************************************************************)
collect_text_files(kind, entries) ==
    IF kind = "file" THEN [ok |-> TRUE, n |-> 1]
    ELSE IF kind = "dir" THEN [ok |-> TRUE, n |-> entries]
    ELSE [ok |-> FALSE, n |-> 0]

(***************************************************************************)
(* Inputs: the lines a configuration file and a schema file may hold.      *)
(***************************************************************************)
SeqsUpTo(S, n) == UNION {[1..k -> S] : k \in 0..n}

ConfigLinePool ==
    { <<"a"," ","="," ","1">>,                       \* a = 1
      <<"a",".","b"," ","="," ","2">>,               \* a.b = 2
      <<" ","a",".","b","=","T","R","U","E"," ">>,   \*  a.b=TRUE
      <<"a"," ","="," ","T","r","u","e">>,           \* a = True
      <<"a","="," ","f","a","l","s","e">>,           \* a= false
      <<"a"," ","="," ","y","e","s">>,               \* a = yes
      <<" ","#","a","=","1">>,                       \*  #a=1
      <<"a"," ","b">>,                               \* a b
      <<" ">> }                                      \* white space only

\* the lines of the files the whole program is run on
DriverLinePool ==
    { <<"a"," ","="," ","1">>,                       \* a = 1
      <<"a",".","b"," ","="," ","2">>,               \* a.b = 2
      <<" ","a",".","b","=","T","R","U","E"," ">> }  \*  a.b=TRUE

SchemaLinePool ==
    { <<"a"," ","="," ","s","t","r","i","n","g">>,           \* a = string
      <<"a",".","b","=","b","o","o","l">>,                   \* a.b=bool
      <<"a"," ","="," ","m","a","p">>,                       \* a = map
      <<"c"," ","="," ","i","n","t">>,                       \* c = int
      <<"a"," ","-",">"," ","b","o","o","l">>,               \* a -> bool
      <<"#"," ","a","=","x">> }                              \* # a=x

ArgCounts == {1, 2, 3, 4}
PathKinds == {"file", "dir", "unreadable_dir", "missing"}

(***************************************************************************)
(* The program state.                                                      *)
(***************************************************************************)
VARIABLES
    pc,          \* where main is: args, load, collect, files, parse, done, exit1, panicked
    schemaText,  \* the lines of the schema file that was read
    schema,      \* the loaded schema: key -> type token
    nfiles,      \* the length of the list collect_text_files returned
    fileIdx,     \* the position in that list of the file being processed
    text,        \* the lines of the current file read so far
    config,      \* the tree parse_config_file is building / has built
    diag,        \* what validate_config returned and printed for the current file
    json,        \* the document printed for the current file, if any
    out          \* the lines main itself printed, in order

vars == <<pc, schemaText, schema, nfiles, fileIdx, text, config, diag, json, out>>

Ev(kind, file) == [kind |-> kind, file |-> file]
NoDiag == [ran |-> FALSE, valid |-> FALSE, warned |-> {}, mismatched |-> {}]
NoJson == [printed |-> FALSE, doc |-> JObject(EmptyMap)]

Init ==
    /\ pc = "args"
    /\ schemaText = <<>>
    /\ schema = EmptyMap
    /\ nfiles = 0
    /\ fileIdx = 0
    /\ text = <<>>
    /\ config = EmptyMap
    /\ diag = NoDiag
    /\ json = NoJson
    /\ out = <<>>

\* main: fewer than three arguments print the usage and exit with code 1
CheckArgs ==
    /\ pc = "args"
    /\ \E argc \in ArgCounts :
          IF argc < 3
          THEN pc' = "exit1" /\ out' = Append(out, Ev("usage", 0))
          ELSE pc' = "load" /\ out' = out
    /\ UNCHANGED <<schemaText, schema, nfiles, fileIdx, text, config, diag, json>>

\* main: match load_schema(schema_path)
LoadSchema ==
    /\ pc = "load"
    /\ \E readable \in BOOLEAN, lines \in SeqsUpTo(SchemaLinePool, MaxSchemaLines) :
          IF readable
          THEN /\ schemaText' = lines
               /\ schema' = load_schema(lines)
               /\ pc' = "collect"
               /\ out' = out
          ELSE /\ lines = <<>>
               /\ schemaText' = <<>>
               /\ schema' = EmptyMap
               /\ pc' = "done"
               /\ out' = Append(out, Ev("schema_error", 0))
    /\ UNCHANGED <<nfiles, fileIdx, text, config, diag, json>>

\* main: match collect_text_files(config_path)
CollectFiles ==
    /\ pc = "collect"
    /\ \E kind \in PathKinds, entries \in 0..MaxFiles :
          LET files == collect_text_files(kind, entries)
          IN  IF files.ok
              THEN pc' = "files" /\ nfiles' = files.n /\ out' = out
              ELSE pc' = "done" /\ nfiles' = 0 /\ out' = Append(out, Ev("collect_error", 0))
    /\ UNCHANGED <<schemaText, schema, fileIdx, text, config, diag, json>>

\* the for_each closure: the header, then File::open of parse_config_file
BeginFile ==
    /\ pc = "files"
    /\ fileIdx < nfiles
    /\ fileIdx' = fileIdx + 1
    /\ text' = <<>>
    /\ config' = EmptyMap
    /\ diag' = NoDiag
    /\ json' = NoJson
    /\ \E opened \in BOOLEAN :
          IF opened
          THEN /\ pc' = "parse"
               /\ out' = Append(out, Ev("header", fileIdx + 1))
          ELSE /\ pc' = "files"
               /\ out' = out \o <<Ev("header", fileIdx + 1), Ev("parse_error", fileIdx + 1)>>
    /\ UNCHANGED <<schemaText, schema, nfiles>>

\* parse_config_file: one turn of the loop over reader.lines(), the line
\* drawn from pool
ReadFrom(pool) ==
    /\ pc = "parse"
    /\ Len(text) < MaxLines
    /\ \E line \in pool :
          LET r == parse_line(config, line)
          IN  /\ text' = Append(text, line)
              /\ config' = r.map
              /\ pc' = IF r.ok THEN "parse" ELSE "panicked"
    /\ UNCHANGED <<schemaText, schema, nfiles, fileIdx, diag, json, out>>

ReadLine == ReadFrom(DriverLinePool)

\* main printing the document without looking at the validation result
emit_json_always(valid) == "json"

\* main: if validate_config(..) { println!(json) } else { eprintln!(error) }
emit(valid) == IF valid THEN "json" ELSE "validation_error"

\* end of the file: Ok(config), validate_config, then the JSON or the error
EndOfFile ==
    /\ pc = "parse"
    /\ LET v == validate_config(config, schema)
       IN  /\ diag' = [ran |-> TRUE, valid |-> v.valid,
                       warned |-> v.warned, mismatched |-> v.mismatched]
           /\ out' = Append(out, Ev(emit(v.valid), fileIdx))
           /\ json' = IF emit(v.valid) = "json"
                      THEN [printed |-> TRUE, doc |-> format_as_json(config)]
                      ELSE NoJson
    /\ pc' = "files"
    /\ UNCHANGED <<schemaText, schema, nfiles, fileIdx, text, config>>

\* the list is exhausted: main returns
Finish ==
    /\ pc = "files"
    /\ fileIdx = nfiles
    /\ pc' = "done"
    /\ UNCHANGED <<schemaText, schema, nfiles, fileIdx, text, config, diag, json, out>>

Next ==
    \/ CheckArgs
    \/ LoadSchema
    \/ CollectFiles
    \/ BeginFile
    \/ ReadLine
    \/ EndOfFile
    \/ Finish

Spec == Init /\ [][Next]_vars

(***************************************************************************)
(* parse_config_file on its own: one opened file, any line of the pool.    *)
(***************************************************************************)
InitParse ==
    /\ pc = "parse"
    /\ schemaText = <<>>
    /\ schema = EmptyMap
    /\ nfiles = 1
    /\ fileIdx = 1
    /\ text = <<>>
    /\ config = EmptyMap
    /\ diag = NoDiag
    /\ json = NoJson
    /\ out = <<Ev("header", 1)>>

ReadAnyLine == ReadFrom(ConfigLinePool)

NextParse ==
    \/ ReadAnyLine
    \/ EndOfFile
    \/ Finish

SpecParse == InitParse /\ [][NextParse]_vars

(***************************************************************************)
(* Vocabulary of the properties.                                           *)
(***************************************************************************)
NotFound == [found |-> FALSE, value |-> MapV(EmptyMap)]

\* the value at a path of segments, descending through Map nodes
RECURSIVE Lookup(_, _)
Lookup(map, keys) ==
    IF keys[1] \notin DOMAIN map THEN NotFound
    ELSE IF Len(keys) = 1 THEN [found |-> TRUE, value |-> map[keys[1]]]
    ELSE IF map[keys[1]].tag # "Map" THEN NotFound
    ELSE Lookup(map[keys[1]].m, Tail(keys))

\* the classification of every line of the pools, and the segments of
\* every key in them, computed once
Classified == [l \in ConfigLinePool \cup SchemaLinePool |-> classify(l)]
Segments == [k \in {Classified[l].key : l \in DOMAIN Classified} |-> split(k)]

\* the value at a dotted key
At(map, key) == Lookup(map, Segments[key])

IsLeaf(v) == v.tag \in {"String", "Bool"}
IsProperPrefix(p, q) == Len(p) < Len(q) /\ SubSeq(q, 1, Len(p)) = p
Last(s) == s[Len(s)]

\* the key-value lines among lines, by position
KVLines(lines) == {i \in 1..Len(lines) : Classified[lines[i]].matched}
KeyOf(lines, i) == Classified[lines[i]].key
ValueOf(lines, i) == Classified[lines[i]].value

\* the last line of the file that sets exactly this key
LastLineOf(lines, key) ==
    CHOOSE i \in KVLines(lines) :
        /\ KeyOf(lines, i) = key
        /\ \A j \in KVLines(lines) : KeyOf(lines, j) = key => j <= i

\* the typed value the specification's Value Coercer assigns to raw text
Lowered(v) == [i \in 1..Len(v) |-> to_ascii_lowercase(v[i])]
Coerced(v) ==
    IF Lowered(v) = TRUE_LIT THEN BoolV(TRUE)
    ELSE IF Lowered(v) = FALSE_LIT THEN BoolV(FALSE)
    ELSE StringV(v)

\* a line sets a leaf at a path that an earlier line used as a container
ContainerThenLeaf(lines) ==
    \E i, j \in KVLines(lines) :
        i < j /\ IsProperPrefix(Segments[KeyOf(lines, j)], Segments[KeyOf(lines, i)])

\* the schema type name of a value's variant
VariantName(v) ==
    CASE v.tag = "String" -> STRING_T
      [] v.tag = "Bool" -> BOOL_T
      [] v.tag = "Map" -> MAP_T

Kinds(i) == LET es == SelectSeq(out, LAMBDA e : e.file = i)
            IN  [n \in 1..Len(es) |-> es[n].kind]
Printed(kind) == \E n \in 1..Len(out) : out[n].kind = kind
Stopped == pc \in {"done", "exit1", "panicked"}
SchemaLoaded == pc \notin {"args", "load", "exit1"} /\ ~Printed("schema_error")

(***************************************************************************)
(* C1.  Leaf-then-container conflict: when a line is read whose dotted key *)
(* has a proper prefix path that currently holds a leaf (String or Bool),  *)
(* the insertion fails with the type-conflict panic and the tree is left   *)
(* without the new value.                                                  *)
(***************************************************************************)
C1_LeafThenContainerFails ==
    [][ (pc = "parse" /\ text' # text) =>
          LET c == Classified[Last(text')]
              keys == Segments[c.key]
          IN  (/\ c.matched
               /\ \E n \in 1..(Len(keys) - 1) :
                     LET l == Lookup(config, SubSeq(keys, 1, n))
                     IN  l.found /\ IsLeaf(l.value))
              => (pc' = "panicked" /\ config' = config) ]_vars

\* `a = 1` then `a.b = 2` has been read and the builder has panicked
C1_Witness ==
    /\ pc = "panicked"
    /\ Len(text) = 2
    /\ KVLines(text) = {1, 2}
    /\ KeyOf(text, 1) = <<"a">>
    /\ KeyOf(text, 2) = <<"a", ".", "b">>
    /\ At(config, <<"a">>).found /\ IsLeaf(At(config, <<"a">>).value)

(***************************************************************************)
(* C2.  Container-then-leaf conflict: when a line is read whose key is     *)
(* exactly a path that currently holds a Map, the insertion fails with a   *)
(* type conflict; a Map is never overwritten by a leaf.                    *)
(***************************************************************************)
C2_ContainerThenLeafFails ==
    [][ (pc = "parse" /\ text' # text) =>
          LET c == Classified[Last(text')]
              l == At(config, c.key)
          IN  (c.matched /\ l.found /\ l.value.tag = "Map")
              => (pc' = "panicked" /\ config' = config) ]_vars

(***************************************************************************)
(* C3.  A type conflict is fatal for its file only: when the program has   *)
(* stopped, every file of the collected list has been processed (its       *)
(* header printed), also the files after one whose tree had a conflict.    *)
(***************************************************************************)
C3_ConflictFatalForFileOnly ==
    (Stopped /\ nfiles > 0) => \A i \in 1..nfiles : Len(Kinds(i)) >= 1

(***************************************************************************)
(* C4.  The validator resolves a schema key as a dotted path: a schema     *)
(* entry (k, T) whose path k holds a value of variant T in the tree gets   *)
(* no missing-key warning and no mismatch.                                 *)
(***************************************************************************)
C4_ValidatorResolvesDottedKeys ==
    diag.ran =>
        \A k \in DOMAIN schema :
            (At(config, k).found /\ VariantName(At(config, k).value) = schema[k])
            => (k \notin diag.warned /\ k \notin diag.mismatched)

(***************************************************************************)
(* C5.  Missing keys only warn, wrong-typed keys fail: a schema key absent *)
(* from the tree is warned about and is no mismatch, and validate_config   *)
(* returns false exactly when some schema key is present with a variant    *)
(* other than its expected type.                                           *)
(***************************************************************************)
C5_MissingWarnsWrongTypeFails ==
    diag.ran =>
        /\ \A k \in DOMAIN schema :
              ~At(config, k).found => (k \in diag.warned /\ k \notin diag.mismatched)
        /\ diag.valid =
              ~\E k \in DOMAIN schema :
                  At(config, k).found /\ VariantName(At(config, k).value) # schema[k]

(***************************************************************************)
(* C6.  The schema loader accepts only `string` and `bool`: a schema file  *)
(* with a line that is neither comment nor blank and is malformed or has   *)
(* another type token makes the load fail and yields no schema.            *)
(***************************************************************************)
SkipLines == {l \in DOMAIN Classified : COMMENT_REGEX(trim(l)) \/ trim(l) = <<>>}
IsRejectedSchemaLine(line) ==
    /\ line \notin SkipLines
    /\ ~(Classified[line].matched /\ Classified[line].value \in {STRING_T, BOOL_T})

IsBoolLiteral(s) == Lowered(s) \in {TRUE_LIT, FALSE_LIT}

C7_LenientBoolCoercion ==
    diag.ran =>
        \A k \in DOMAIN schema :
            LET l == At(config, k)
            IN  (l.found /\ l.value.tag = "String" /\ schema[k] = BOOL_T)
                => ((k \notin diag.mismatched) <=> IsBoolLiteral(l.value.s))

(***************************************************************************)
(* C8.  Last write wins: while a file builds without a type conflict, the  *)
(* value at the key of every key-value line read so far is the coerced     *)
(* value of the last line with exactly that key, and parsing prints        *)
(* nothing.  A leaf found at such a key is that value even when a Map was  *)
(* replaced by a leaf on the way.                                          *)
(***************************************************************************)
C8_LastWriteWins ==
    pc # "panicked" =>
        /\ \A i \in KVLines(text) :
              LET k == KeyOf(text, i)
                  l == At(config, k)
                  v == coerce(ValueOf(text, LastLineOf(text, k)))
              IN  /\ (l.found /\ IsLeaf(l.value)) => l.value = v
                  /\ ~ContainerThenLeaf(text) => (l.found /\ l.value = v)
        /\ pc = "parse" => Last(out) = Ev("header", fileIdx)

\* two lines with the same key and different values have been read
C8_Witness ==
    /\ pc = "parse"
    /\ KVLines(text) = {1, 2}
    /\ KeyOf(text, 1) = KeyOf(text, 2)
    /\ coerce(ValueOf(text, 1)) # coerce(ValueOf(text, 2))
    /\ At(config, KeyOf(text, 2)).value = coerce(ValueOf(text, 2))

(***************************************************************************)
(* C9.  Coercion and nested read-back: after one matching line `k = v` has *)
(* been parsed into the empty tree, the value at dotted path k is          *)
(* Bool(true) when v is `true` in any letter case, Bool(false) when v is   *)
(* `false` in any letter case, and String(v) as it stands otherwise.       *)
(***************************************************************************)
C9_CoercionReadBack ==
    (Len(text) = 1 /\ Classified[text[1]].matched) =>
        /\ pc # "panicked"
        /\ At(config, KeyOf(text, 1)) = [found |-> TRUE, value |-> Coerced(ValueOf(text, 1))]

\* ` a.b=TRUE ` has been parsed and Bool(true) is read back at a.b
C9_Witness ==
    /\ Len(text) = 1
    /\ Classified[text[1]].matched
    /\ ValueOf(text, 1) = <<"T", "R", "U", "E">>
    /\ Len(Segments[KeyOf(text, 1)]) = 2
    /\ At(config, KeyOf(text, 1)).value = BoolV(TRUE)

(***************************************************************************)
(* C10.  Per-file output gating: every file begun has its header first;    *)
(* the JSON document follows it exactly when the file was parsed and       *)
(* validate_config returned true; when validation fails the error line is  *)
(* printed instead, no JSON, and main goes on to the next file.            *)
(***************************************************************************)
C10_OutputGating ==
    /\ \A i \in 1..fileIdx :
          /\ Len(Kinds(i)) \in {1, 2}
          /\ Kinds(i)[1] = "header"
          /\ Len(Kinds(i)) = 2 => Kinds(i)[2] \in {"json", "validation_error", "parse_error"}
          /\ (i < fileIdx /\ pc # "panicked") => Len(Kinds(i)) = 2
    /\ \A n \in 1..(Len(out) - 1) : out[n].file <= out[n + 1].file
    /\ fileIdx >= 1 =>
          /\ (Len(Kinds(fileIdx)) = 2 /\ Kinds(fileIdx)[2] = "json")
                <=> (diag.ran /\ diag.valid)
          /\ (Len(Kinds(fileIdx)) = 2 /\ Kinds(fileIdx)[2] = "validation_error")
                <=> (diag.ran /\ ~diag.valid)
          /\ json.printed <=> (diag.ran /\ diag.valid)
          /\ json.printed => json.doc = format_as_json(config)
          /\ diag.ran => (pc \in {"files", "done"}
                          /\ diag.valid = validate_config(config, schema).valid)
    /\ (pc = "done" /\ ~Printed("schema_error") /\ ~Printed("collect_error"))
          => fileIdx = nfiles

\* a file failed validation, and the next file was processed and printed
C10_Witness ==
    /\ fileIdx = 2
    /\ Kinds(1) = <<"header", "validation_error">>
    /\ Kinds(2) = <<"header", "json">>
    /\ json.printed

=============================================================================
